---- MODULE Spec2Model ----
(***************************************************************************)
(* A model of three parts of the zkevm-circuits prover:                    *)
(*   - match_circuit_params   (prover/src/circuit_autogen.rs)              *)
(*   - SignedComparatorGadget (evm_circuit/execution/signed_comparator.rs) *)
(*   - compute_proof          (prover/src/compute_proof.rs, structs.rs)    *)
(* Each part has its own specification (SpecParams, Spec, SpecTrace,       *)
(* SpecProof); the variables of the other parts stay at their idle value.  *)
(***************************************************************************)
EXTENDS Integers, Sequences, FiniteSets, TLC

VARIABLES
    \* match_circuit_params
    gas_used,       \* the scrutinee $gas_used
    selected,       \* what the macro expansion evaluated
    \* SignedComparatorGadget
    phase,          \* "new" -> "configured" -> "assigned"
    cb,             \* the ConstraintBuilder after configure
    step,           \* the ExecStep: opcode and rw_indices
    rws,            \* block.rws: the recorded stack values (U256)
    cells,          \* the values assign_exec_step gives the gadget's cells
    \* the step chain
    trace,          \* the steps' state (rw_counter, program_counter, stack_pointer)
    verdict,        \* "open", "accepted" or "rejected"
    \* compute_proof
    pp              \* the state of the proof runs

paramVars == <<gas_used, selected>>
scmpVars  == <<phase, cb, step, rws, cells>>
traceVars == <<trace, verdict>>
proofVars == <<pp>>
vars == <<gas_used, selected, phase, cb, step, rws, cells, trace, verdict, pp>>

NoValue == [tag |-> "none"]

(***************************************************************************)
(* prover/src/circuit_autogen.rs                                           *)
(***************************************************************************)

\* Half-width of the window of gas_used values taken around each bucket edge.
GasWindow == 12

GasEdges == {0, 100000, 200000, 500000, 1000000}

GasInputs == {g \in UNION {(e - GasWindow)..(e + GasWindow) : e \in GasEdges} : g >= 0}

OnMatch(limit, txs, calldata, bytecode, k) ==
    [branch |-> "on_match", BLOCK_GAS_LIMIT |-> limit, MAX_TXS |-> txs,
     MAX_CALLDATA |-> calldata, MAX_BYTECODE |-> bytecode, MIN_K |-> k]

OnError == [branch |-> "on_error"]

\* A first arm that excludes its upper edge.
match_circuit_params_exclusive(g) ==
    IF g >= 0 /\ g < 100000 THEN OnMatch(100000, 4, 19750, 26333, 20)
    ELSE IF g >= 100001 /\ g <= 200000 THEN OnMatch(200000, 9, 44750, 59666, 21)
    ELSE IF g >= 200001 /\ g <= 500000 THEN OnMatch(500000, 23, 119750, 159666, 22)
    ELSE IF g >= 500001 /\ g <= 1000000 THEN OnMatch(1000000, 47, 244750, 326333, 23)
    ELSE OnError

\* The arms of the match, tried in order.
match_circuit_params(g) ==
    IF g >= 0 /\ g <= 100000 THEN OnMatch(100000, 4, 19750, 26333, 20)
    ELSE IF g >= 100001 /\ g <= 200000 THEN OnMatch(200000, 9, 44750, 59666, 21)
    ELSE IF g >= 200001 /\ g <= 500000 THEN OnMatch(500000, 23, 119750, 159666, 22)
    ELSE IF g >= 500001 /\ g <= 1000000 THEN OnMatch(1000000, 47, 244750, 326333, 23)
    ELSE OnError


\* One expansion of the macro on gas_used.
MatchCircuitParams ==
    /\ selected = NoValue
    /\ selected' = match_circuit_params(gas_used)
    /\ UNCHANGED gas_used

(***************************************************************************)
(* zkevm-circuits/src/evm_circuit/execution/signed_comparator.rs           *)
(***************************************************************************)

\* Values 0..MaxByte (and 255) are tried in the cells that vary.
MaxByte == 1
\* Half-width of the window of most-significant-byte values around 128.
SignWindow == 1

N_BYTES_WORD == 32

ByteVals == (0..MaxByte) \cup {255}
SignVals == {0, 255} \cup ((128 - SignWindow)..(127 + SignWindow))

\* A U256 is written most-significant byte first (index 0), as the tests'
\* Word::from_big_endian does.  The bytes that vary are the two ends of
\* each 16-byte half.
MkWord(top, h, m, l) ==
    [i \in 0..(N_BYTES_WORD - 1) |->
        CASE i = 0 -> top
          [] i = 15 -> h
          [] i = 16 -> m
          [] i = 31 -> l
          [] OTHER -> 0]

Words == {MkWord(t, h, m, l) : t \in SignVals, h \in ByteVals, m \in ByteVals, l \in ByteVals}

WordOf(n) == MkWord(0, 0, 0, n)

\* ToLittleEndian::to_le_bytes: cell 0 is the least-significant byte.
to_le_bytes(w) == [i \in 0..(N_BYTES_WORD - 1) |-> w[N_BYTES_WORD - 1 - i]]

\* The slice bytes[lo..hi] as a sequence.
Slice(bytes, lo, hi) == [i \in 1..(hi - lo) |-> bytes[lo + i - 1]]

\* A field element is kept as little-endian limbs of 16 bits: the values
\* of 16-byte halves exceed the integers TLC computes with.
FromU64(v) == <<v>>

\* from_bytes::value: the sum of bytes[i] * 256^i.
from_bytes_value(bytes) ==
    [j \in 1..((Len(bytes) + 1) \div 2) |->
        bytes[2 * j - 1] + (IF 2 * j <= Len(bytes) THEN 256 * bytes[2 * j] ELSE 0)]

LimbAt(x, i) == IF i <= Len(x) THEN x[i] ELSE 0
MaxLen(x, y) == IF Len(x) >= Len(y) THEN Len(x) ELSE Len(y)

FieldEq(x, y) == \A i \in 1..MaxLen(x, y) : LimbAt(x, i) = LimbAt(y, i)
FieldLt(x, y) ==
    \E i \in 1..MaxLen(x, y) :
        /\ LimbAt(x, i) < LimbAt(y, i)
        /\ \A j \in (i + 1)..MaxLen(x, y) : LimbAt(x, j) = LimbAt(y, j)

Bool01(p) == IF p THEN 1 ELSE 0

\* LtGadget::assign: lt = lhs < rhs.
LtGadget_assign(lhs, rhs) == Bool01(FieldLt(lhs, rhs))
\* ComparisonGadget::assign: (lt, eq).
ComparisonGadget_assign(lhs, rhs) ==
    [lt |-> Bool01(FieldLt(lhs, rhs)), eq |-> Bool01(FieldEq(lhs, rhs))]
\* IsEqualGadget::assign.
IsEqualGadget_assign(lhs, rhs) == Bool01(FieldEq(lhs, rhs))

Opcodes == {"SLT", "SGT"}
\* OpcodeId::as_u8.
as_u8(op) == CASE op = "SLT" -> 18 [] op = "SGT" -> 19

\* select::expr(selector, when_true, when_false) on field values.
select(sel, t, f) == sel * t + (1 - sel) * f
\* ... and on the cells of a word.
select_word(sel, t, f) == [i \in 0..(N_BYTES_WORD - 1) |-> select(sel, t[i], f[i])]


\* ---- configure: the expressions and declarations -----------------------

\* a_lt_b for operands of the same sign (line 102).
a_lt_b_expr(c) == select(c.comparison_hi.lt, 1, c.comparison_hi.eq * c.lt_lo)

\* a_neg_b_pos without its b_pos factor.
a_neg_b_pos_no_b(c) == 1 - c.sign_check_a

a_neg_b_pos(c) == (1 - c.sign_check_a) * c.sign_check_b
b_neg_a_pos(c) == (1 - c.sign_check_b) * c.sign_check_a
same_sign(c) == 1 - a_neg_b_pos(c) - b_neg_a_pos(c)

\* The expression pushed on the stack (lines 115-116).
result_expr(c) == a_neg_b_pos(c) + same_sign(c) * a_lt_b_expr(c)

ExprSelect(t, f) == [kind |-> "select_is_sgt", t |-> t, f |-> f]
ExprResult == [kind |-> "result", t |-> "", f |-> ""]

\* The value of a declared stack expression on the assigned cells, as the
\* cells of the word looked up.
Eval(e, c) ==
    IF e.kind = "select_is_sgt"
    THEN select_word(c.is_sgt, c[e.t], c[e.f])
    ELSE to_le_bytes(WordOf(result_expr(c)))

NewConstraintBuilder ==
    [stack_ops |-> <<>>, rw_counter_offset |-> 0, stack_pointer_offset |-> 0,
     step_state_transition |-> NoValue]

\* ConstraintBuilder::stack_pop: a read at the current stack pointer.
stack_pop(b, value) ==
    [b EXCEPT !.stack_ops = Append(@, [is_write |-> FALSE, value |-> value,
                                      rw_counter_offset |-> b.rw_counter_offset,
                                      stack_pointer_offset |-> b.stack_pointer_offset]),
              !.rw_counter_offset = @ + 1,
              !.stack_pointer_offset = @ + 1]

\* ConstraintBuilder::stack_push: a write one below the current stack pointer.
stack_push(b, value) ==
    [b EXCEPT !.stack_ops = Append(@, [is_write |-> TRUE, value |-> value,
                                      rw_counter_offset |-> b.rw_counter_offset,
                                      stack_pointer_offset |-> b.stack_pointer_offset - 1]),
              !.rw_counter_offset = @ + 1,
              !.stack_pointer_offset = @ - 1]

Delta(n) == [kind |-> "Delta", by |-> n]
Same == [kind |-> "Same", by |-> 0]

StepStateFields ==
    {"rw_counter", "call_id", "is_root", "is_create", "code_source",
     "program_counter", "stack_pointer", "gas_left", "memory_word_size",
     "state_write_counter"}

\* StepStateTransition::default(): every field unchanged.
DefaultStepStateTransition == [f \in StepStateFields |-> Same]

\* A transition that leaves the rw counter where it is.
step_state_transition_no_rw ==
    [DefaultStepStateTransition EXCEPT !.program_counter = Delta(1),
                                       !.stack_pointer = Delta(1)]

\* A transition that counts the two reads only.
step_state_transition_reads_only ==
    [DefaultStepStateTransition EXCEPT !.rw_counter = Delta(2),
                                       !.program_counter = Delta(1),
                                       !.stack_pointer = Delta(1)]

\* The StepStateTransition the gadget declares (lines 127-132).
step_state_transition ==
    [DefaultStepStateTransition EXCEPT !.rw_counter = Delta(3),
                                       !.program_counter = Delta(1),
                                       !.stack_pointer = Delta(1)]

\* SignedComparatorGadget::configure: two pops, one push, the transition.
configure ==
    [stack_push(
        stack_pop(
            stack_pop(NewConstraintBuilder, ExprSelect("b", "a")),
            ExprSelect("a", "b")),
        ExprResult)
     EXCEPT !.step_state_transition = step_state_transition]

\* ---- assign_exec_step ---------------------------------------------------

\* The rw indices taken in the same order for both opcodes.
assign_indices_noswap(s) == <<s.rw_indices[0], s.rw_indices[1]>>

\* let indices = if opcode == SGT { [rw[1], rw[0]] } else { [rw[0], rw[1]] }
assign_indices(s) ==
    IF s.opcode = "SGT"
    THEN <<s.rw_indices[1], s.rw_indices[0]>>
    ELSE <<s.rw_indices[0], s.rw_indices[1]>>

\* The sign byte read at the least-significant cell.
sign_byte_lsb(bytes) == bytes[0]

\* The most-significant byte of little-endian bytes: a[31].
sign_byte(bytes) == bytes[31]

\* The values given to the gadget's cells for step s over block.rws r.
assign_exec_step(s, r) ==
    LET a == to_le_bytes(r[assign_indices(s)[1]])
        b == to_le_bytes(r[assign_indices(s)[2]])
    IN  [is_sgt |-> IsEqualGadget_assign(FromU64(as_u8(s.opcode)), FromU64(as_u8("SGT"))),
         sign_check_a |-> LtGadget_assign(FromU64(sign_byte(a)), FromU64(128)),
         sign_check_b |-> LtGadget_assign(FromU64(sign_byte(b)), FromU64(128)),
         lt_lo |-> LtGadget_assign(from_bytes_value(Slice(a, 0, 16)),
                                   from_bytes_value(Slice(b, 0, 16))),
         comparison_hi |-> ComparisonGadget_assign(from_bytes_value(Slice(a, 16, 32)),
                                                   from_bytes_value(Slice(b, 16, 32))),
         a |-> a,
         b |-> b]

\* ---- the reference order and the recorded step --------------------------

\* Unsigned order of two U256 written most-significant byte first.
UnsignedLt(x, y) ==
    \E i \in 0..(N_BYTES_WORD - 1) :
        /\ x[i] < y[i]
        /\ \A j \in 0..(i - 1) : x[j] = y[j]

FlipSign(x) == [x EXCEPT ![0] = (@ + 128) % 256]

\* Two's-complement order: the unsigned order with the sign bits flipped.
SignedLt(x, y) == UnsignedLt(FlipSign(x), FlipSign(y))

\* What the interpreter pushes for the opcode on top-of-stack x and next y.
EvmResult(op, x, y) ==
    IF op = "SLT" THEN Bool01(SignedLt(x, y)) ELSE Bool01(SignedLt(y, x))


Configure ==
    /\ phase = "new"
    /\ cb' = configure
    /\ phase' = "configured"
    /\ UNCHANGED <<step, rws, cells>>

AssignExecStep ==
    /\ phase = "configured"
    /\ cells' = assign_exec_step(step, rws)
    /\ phase' = "assigned"
    /\ UNCHANGED <<cb, step, rws>>

(***************************************************************************)
(* The chain of steps: each step's gadget declares the transition the      *)
(* next step must exhibit.                                                 *)
(***************************************************************************)

\* Steps in a trace, and the largest counter delta a recorded step may show.
MaxSteps == 4
MaxDelta == 4

CounterFields == {"rw_counter", "program_counter", "stack_pointer"}

\* The constraint one declared Transition puts on a field of two
\* consecutive steps.
TransitionHolds(t, cur, next) ==
    IF t.kind = "Delta" THEN next = cur + t.by ELSE next = cur

\* require_step_state_transition for the step at position i of tr.
StepConstraintHolds(tr, i) ==
    \A f \in CounterFields :
        TransitionHolds(configure.step_state_transition[f], tr[i][f], tr[i + 1][f])

\* The table is satisfiable only if every step's constraints hold.
Satisfiable(tr) == \A i \in 1..(Len(tr) - 1) : StepConstraintHolds(tr, i)

FirstStep(op) ==
    [opcode |-> op, rw_counter |-> 1, program_counter |-> 0, stack_pointer |-> 1020]


\* The witness records one more step; its counters are whatever the
\* recorded trace says.
AppendStep ==
    /\ verdict = "open"
    /\ Len(trace) < MaxSteps
    /\ \E op \in Opcodes, d \in (-1)..MaxDelta :
        LET last == trace[Len(trace)]
        IN  trace' = Append(trace,
                [opcode |-> op,
                 rw_counter |-> last.rw_counter + d,
                 program_counter |-> last.program_counter + 1,
                 stack_pointer |-> last.stack_pointer + 1])
    /\ UNCHANGED verdict

\* The constraint system is checked over the whole table.
CheckTrace ==
    /\ verdict = "open"
    /\ verdict' = IF Satisfiable(trace) THEN "accepted" ELSE "rejected"
    /\ UNCHANGED trace

(***************************************************************************)
(* prover/src/compute_proof.rs and prover/src/structs.rs                   *)
(***************************************************************************)

MAX_TXS == 1
MAX_CALLDATA_TX == 2048
NUM_BLINDING_ROWS == 7 - 1

\* params.k ranges over MinK..MaxK; 2^MinK is the first row count that
\* leaves room for the blinding rows.
MinK == 3
MaxK == 4
\* Transactions a block of the node may hold.
MaxBlockTxs == 2
\* Block sizes are taken within CapSlack of the circuit's limits.
CapSlack == 1
\* Milliseconds a stage may take, and calls of compute_proof.
MaxStageMs == 1
MaxRuns == 2

Ok(v) == [tag |-> "Ok", value |-> v]
Err(stage, cause) == [tag |-> "Err", stage |-> stage, cause |-> cause]

\* The empty block gen_static_key builds its circuit from.
DefaultBlock == [txs |-> 0, calldata |-> 0, bytecode |-> 0]

\* build_circuit: the SuperCircuit<Fr, MAX_TXS, MAX_CALLDATA_TX> for k.
build_circuit(k, block) ==
    [k |-> k, num_rows |-> 2 ^ k, bytecode_size |-> 2 ^ k - NUM_BLINDING_ROWS,
     MAX_TXS |-> MAX_TXS, MAX_CALLDATA_TX |-> MAX_CALLDATA_TX, block |-> block]

\* What a key is derived for: the circuit without its witness.
Shape(circuit) ==
    [k |-> circuit.k, num_rows |-> circuit.num_rows,
     bytecode_size |-> circuit.bytecode_size,
     MAX_TXS |-> circuit.MAX_TXS, MAX_CALLDATA_TX |-> circuit.MAX_CALLDATA_TX]

\* keygen_vk and keygen_pk over params and a circuit.
keygen(params_k, circuit) == [params_k |-> params_k, shape |-> Shape(circuit)]

\* A key derived for the smallest table whatever params.k is.
gen_static_key_fixed(params_k, fail) ==
    IF fail # "none" THEN Err("keygen", fail)
    ELSE Ok(keygen(params_k, build_circuit(MinK, DefaultBlock)))

\* gen_static_key(params); fail names the call that returns an error.
gen_static_key(params_k, fail) ==
    IF fail # "none" THEN Err("keygen", fail)
    ELSE Ok(keygen(params_k, build_circuit(params_k, DefaultBlock)))

\* The block does not fit the tables of the circuit.
ExceedsCapacity(circuit) ==
    \/ circuit.block.txs > circuit.MAX_TXS
    \/ circuit.block.calldata > circuit.MAX_CALLDATA_TX
    \/ circuit.block.bytecode > circuit.bytecode_size

\* create_proof: the proof bytes written to the transcript, or an error.
create_proof(params_k, pk, circuit, nonce, fail) ==
    IF ExceedsCapacity(circuit) THEN Err("prove", "capacity")
    ELSE IF pk.shape # Shape(circuit) \/ pk.params_k # params_k
         THEN Err("prove", "key")
    ELSE IF fail THEN Err("prove", "proving")
    ELSE Ok(<<circuit.k, circuit.block.txs, circuit.block.calldata,
              circuit.block.bytecode, nonce>>)

\* The fields struct Proofs declares.
ProofsFields == {"state_proof", "evm_proof"}

\* The struct literal compute_proof writes.
ProofsLiteral(evm_proof, duration) ==
    [evm_proof |-> evm_proof, state_proof |-> <<>>, duration |-> duration]

\* The value of type Proofs: the declared fields, set from the literal.
Proofs(evm_proof, duration) ==
    [f \in ProofsFields |-> ProofsLiteral(evm_proof, duration)[f]]

WitnessCalls ==
    {"Http::from_str", "BuilderClient::new", "get_block", "get_state_accesses",
     "get_state", "gen_inputs_from_state"}
KeygenCalls == {"Block::new", "keygen_vk", "keygen_pk"}

Blocks(k) ==
    [txs : 0..MaxBlockTxs,
     calldata : {0} \cup ((MAX_CALLDATA_TX - CapSlack)..(MAX_CALLDATA_TX + CapSlack)),
     bytecode : {0} \cup ((2 ^ k - NUM_BLINDING_ROWS - CapSlack)
                          ..(2 ^ k - NUM_BLINDING_ROWS + CapSlack))]

ProofIdle ==
    [pc |-> "idle", run |-> 0, params_k |-> 0, node_block |-> DefaultBlock,
     now |-> 0, time_started |-> 0, block |-> NoValue, circuit |-> NoValue,
     pk |-> NoValue, used_pk |-> NoValue, transcript |-> NoValue,
     ret |-> NoValue, log |-> <<>>]

\* A call compute_proof(params, block_num, rpc_url); time_started is taken.
StartProof ==
    /\ pp.pc \in {"idle", "done", "failed"}
    /\ pp.run < MaxRuns
    /\ \E k \in MinK..MaxK : \E blk \in Blocks(k) :
        pp' = [pc |-> "witness", run |-> pp.run + 1, params_k |-> k,
               node_block |-> blk, now |-> pp.now, time_started |-> pp.now,
               block |-> NoValue, circuit |-> NoValue, pk |-> NoValue,
               used_pk |-> NoValue, transcript |-> NoValue, ret |-> NoValue,
               log |-> <<>>]

\* The witness stage fails and is tried again.
RetrieveWitnessRetry ==
    /\ pp.pc = "witness"
    /\ \E d \in 0..MaxStageMs, fail \in WitnessCalls \cup {"none"} :
        pp' = IF fail # "none"
              THEN [pp EXCEPT !.now = @ + d, !.log = Append(@, "witness")]
              ELSE [pp EXCEPT !.pc = "build", !.now = @ + d,
                              !.log = Append(@, "witness"),
                              !.block = pp.node_block]

\* Lines 102-119: request and build the inputs; any call may fail.
RetrieveWitness ==
    /\ pp.pc = "witness"
    /\ \E d \in 0..MaxStageMs, fail \in WitnessCalls \cup {"none"} :
        pp' = IF fail # "none"
              THEN [pp EXCEPT !.pc = "failed", !.now = @ + d,
                              !.log = Append(@, "witness"),
                              !.ret = Err("witness", fail)]
              ELSE [pp EXCEPT !.pc = "build", !.now = @ + d,
                              !.log = Append(@, "witness"),
                              !.block = pp.node_block]

\* Line 122: build_circuit(params.k, block, txs).
BuildCircuit ==
    /\ pp.pc = "build"
    /\ pp' = [pp EXCEPT !.pc = "keygen", !.log = Append(@, "build"),
                        !.circuit = build_circuit(pp.params_k, pp.block)]

\* Line 123: let pk = gen_static_key(params)?.
GenStaticKey ==
    /\ pp.pc = "keygen"
    /\ \E d \in 0..MaxStageMs, fail \in KeygenCalls \cup {"none"} :
        LET r == gen_static_key(pp.params_k, fail)
        IN  pp' = IF r.tag = "Err"
                  THEN [pp EXCEPT !.pc = "failed", !.now = @ + d,
                                  !.log = Append(@, "keygen"), !.ret = r]
                  ELSE [pp EXCEPT !.pc = "prove", !.now = @ + d,
                                  !.log = Append(@, "keygen"),
                                  !.pk = [key |-> r.value, run |-> pp.run]]

\* The result of create_proof is dropped and the transcript finalized.
CreateProofUnchecked ==
    /\ pp.pc = "prove"
    /\ \E d \in 0..MaxStageMs, nonce \in 1..2, fail \in BOOLEAN :
        LET r == create_proof(pp.params_k, pp.pk.key, pp.circuit, nonce, fail)
        IN  pp' = [pp EXCEPT !.pc = "package", !.now = @ + d,
                             !.log = Append(@, "prove"),
                             !.used_pk = pp.pk,
                             !.transcript = IF r.tag = "Ok" THEN r.value ELSE <<0>>]

\* Lines 124-128: create_proof(...)? and transcript.finalize().
CreateProof ==
    /\ pp.pc = "prove"
    /\ \E d \in 0..MaxStageMs, nonce \in 1..2, fail \in BOOLEAN :
        LET r == create_proof(pp.params_k, pp.pk.key, pp.circuit, nonce, fail)
        IN  pp' = IF r.tag = "Err"
                  THEN [pp EXCEPT !.pc = "failed", !.now = @ + d,
                                  !.log = Append(@, "prove"),
                                  !.used_pk = pp.pk, !.ret = r]
                  ELSE [pp EXCEPT !.pc = "package", !.now = @ + d,
                                  !.log = Append(@, "prove"),
                                  !.used_pk = pp.pk, !.transcript = r.value]

\* Lines 131-137: the Proofs value, with the time elapsed since the start.
Package ==
    /\ pp.pc = "package"
    /\ pp' = [pp EXCEPT !.pc = "done", !.log = Append(@, "package"),
                        !.ret = Ok(Proofs(pp.transcript, pp.now - pp.time_started))]

(***************************************************************************)
(* The specifications                                                      *)
(***************************************************************************)

\* One use of the macro on each gas_used of GasInputs.
InitParams ==
    /\ gas_used \in GasInputs
    /\ selected = NoValue
    /\ phase = "idle" /\ cb = NoValue /\ step = NoValue /\ rws = NoValue /\ cells = NoValue
    /\ trace = <<>> /\ verdict = "idle"
    /\ pp = ProofIdle

NextParams == MatchCircuitParams /\ UNCHANGED <<scmpVars, traceVars, proofVars>>

SpecParams == InitParams /\ [][NextParams]_vars

\* One SLT or SGT step: the two words popped, and the word the interpreter
\* pushed, are block.rws[0..2].
Init ==
    /\ phase = "new"
    /\ cb = NoValue
    /\ cells = NoValue
    /\ \E op \in Opcodes, x \in Words, y \in Words :
        /\ step = [opcode |-> op, rw_indices |-> [i \in 0..2 |-> i]]
        /\ rws = [i \in 0..2 |-> CASE i = 0 -> x [] i = 1 -> y
                                   [] OTHER -> WordOf(EvmResult(op, x, y))]
    /\ gas_used = 0 /\ selected = NoValue
    /\ trace = <<>> /\ verdict = "idle"
    /\ pp = ProofIdle

Next ==
    \/ Configure /\ UNCHANGED <<paramVars, traceVars, proofVars>>
    \/ AssignExecStep /\ UNCHANGED <<paramVars, traceVars, proofVars>>

Spec == Init /\ [][Next]_vars

\* A recorded trace of SLT and SGT steps, then the check of the table.
InitTrace ==
    /\ \E op \in Opcodes : trace = <<FirstStep(op)>>
    /\ verdict = "open"
    /\ gas_used = 0 /\ selected = NoValue
    /\ phase = "idle" /\ cb = NoValue /\ step = NoValue /\ rws = NoValue /\ cells = NoValue
    /\ pp = ProofIdle

NextTrace ==
    \/ AppendStep /\ UNCHANGED <<paramVars, scmpVars, proofVars>>
    \/ CheckTrace /\ UNCHANGED <<paramVars, scmpVars, proofVars>>

SpecTrace == InitTrace /\ [][NextTrace]_vars

\* Calls of compute_proof, one after the other.
InitProof ==
    /\ pp = ProofIdle
    /\ gas_used = 0 /\ selected = NoValue
    /\ phase = "idle" /\ cb = NoValue /\ step = NoValue /\ rws = NoValue /\ cells = NoValue
    /\ trace = <<>> /\ verdict = "idle"

NextProof ==
    \/ StartProof /\ UNCHANGED <<paramVars, scmpVars, traceVars>>
    \/ RetrieveWitness /\ UNCHANGED <<paramVars, scmpVars, traceVars>>
    \/ BuildCircuit /\ UNCHANGED <<paramVars, scmpVars, traceVars>>
    \/ GenStaticKey /\ UNCHANGED <<paramVars, scmpVars, traceVars>>
    \/ CreateProof /\ UNCHANGED <<paramVars, scmpVars, traceVars>>
    \/ Package /\ UNCHANGED <<paramVars, scmpVars, traceVars>>

SpecProof == InitProof /\ [][NextProof]_vars

(***************************************************************************)
(* Properties                                                              *)
(***************************************************************************)

\* The table of section 4.1: <<first gas, last gas, the bucket>>.
BucketTable ==
    {<<0, 100000, OnMatch(100000, 4, 19750, 26333, 20)>>,
     <<100001, 200000, OnMatch(200000, 9, 44750, 59666, 21)>>,
     <<200001, 500000, OnMatch(500000, 23, 119750, 159666, 22)>>,
     <<500001, 1000000, OnMatch(1000000, 47, 244750, 326333, 23)>>}

\* C1: for gas_used in 0..=1000000 the macro evaluates on_match with exactly
\* the row whose range contains gas_used, which is the bucket with the
\* smallest block_gas_limit >= gas_used; above 1000000 it evaluates on_error
\* and not on_match.
C1_SelectsBucket ==
    selected # NoValue =>
        IF gas_used <= 1000000
        THEN /\ \E row \in BucketTable :
                    /\ row[1] <= gas_used /\ gas_used <= row[2]
                    /\ selected = row[3]
             /\ selected.BLOCK_GAS_LIMIT >= gas_used
             /\ \A row \in BucketTable :
                    row[3].BLOCK_GAS_LIMIT >= gas_used
                        => selected.BLOCK_GAS_LIMIT <= row[3].BLOCK_GAS_LIMIT
        ELSE selected = OnError /\ selected.branch # "on_match"

C1_Witness ==
    /\ gas_used = 100000
    /\ selected # NoValue
    /\ selected.branch = "on_match"
    /\ selected.MIN_K = 20

\* C2: the pushed result, on the assigned values, is 1 iff the first word
\* is below the second in two's complement for SLT, and for SGT it is the
\* SLT result on the exchanged words; it is 0 for equal words.
C2_SignedResult ==
    phase = "assigned" =>
        LET r == result_expr(cells)
            x == rws[step.rw_indices[0]]
            y == rws[step.rw_indices[1]]
            swapped == [rws EXCEPT ![step.rw_indices[0]] = y,
                                   ![step.rw_indices[1]] = x]
            slt == [step EXCEPT !.opcode = "SLT"]
        IN  /\ step.opcode = "SLT" => r = Bool01(SignedLt(x, y))
            /\ step.opcode = "SGT" =>
                   /\ r = Bool01(SignedLt(y, x))
                   /\ r = result_expr(assign_exec_step(slt, swapped))
            /\ x = y => r = 0

C2_Witness ==
    /\ phase = "assigned"
    /\ step.opcode = "SGT"
    /\ rws[0][0] >= 128 /\ rws[1][0] >= 128
    /\ rws[0][0] = rws[1][0]
    /\ result_expr(cells) = 1

\* C3: the declared transition is rw_counter +3, program_counter +1,
\* stack_pointer +1, every other field unchanged, and 3 is the number of
\* stack accesses declared: two pops and one push.
C3_DeclaredTransition ==
    phase \in {"configured", "assigned"} =>
        LET t == cb.step_state_transition
            pops == {i \in 1..Len(cb.stack_ops) : ~cb.stack_ops[i].is_write}
            pushes == {i \in 1..Len(cb.stack_ops) : cb.stack_ops[i].is_write}
        IN  /\ t.rw_counter = Delta(3)
            /\ t.program_counter = Delta(1)
            /\ t.stack_pointer = Delta(1)
            /\ \A f \in DOMAIN t \ CounterFields : t[f] = Same
            /\ Cardinality(pops) = 2 /\ Cardinality(pushes) = 1
            /\ t.rw_counter.by = Len(cb.stack_ops)
            /\ t.rw_counter.by = cb.rw_counter_offset
            /\ t.stack_pointer.by = cb.stack_pointer_offset
            /\ Cardinality(DOMAIN step.rw_indices) = t.rw_counter.by

C3_Witness ==
    /\ phase = "assigned"
    /\ Len(cb.stack_ops) = 3
    /\ cb.step_state_transition.rw_counter.by = 3

\* C4: in an accepted trace the rw counter never decreases and every
\* step's delta is the 3 its gadget declares; a checked trace with any
\* other delta is rejected.
C4_TraceDeltas ==
    LET Delta_(i) == trace[i + 1].rw_counter - trace[i].rw_counter
        Pairs == 1..(Len(trace) - 1)
    IN  /\ verdict = "accepted" =>
               \A i \in Pairs : Delta_(i) >= 0 /\ Delta_(i) = 3
        /\ (verdict \in {"accepted", "rejected"} /\ \E i \in Pairs : Delta_(i) # 3)
               => verdict = "rejected"

C4_Witness ==
    /\ verdict = "accepted"
    /\ Len(trace) >= 3
    /\ \E i \in 1..Len(trace) : trace[i].opcode = "SGT"

StageOrder == <<"witness", "build", "keygen", "prove", "package">>

\* C6: the stages of a run are a prefix of witness, build, keygen, prove,
\* package, each run at most once; a failed run stopped at the stage that
\* failed and holds an error and no Proofs; a Proofs value is held only
\* after all five stages.
C6_FailFast ==
    /\ Len(pp.log) <= Len(StageOrder)
    /\ \A i \in 1..Len(pp.log) : pp.log[i] = StageOrder[i]
    /\ pp.pc = "failed" =>
           /\ pp.ret.tag = "Err"
           /\ pp.log # <<>> /\ pp.ret.stage = pp.log[Len(pp.log)]
    /\ pp.ret.tag = "Err" => pp.pc = "failed"
    /\ pp.ret.tag = "Ok" => pp.pc = "done" /\ pp.log = StageOrder
    /\ pp.pc = "done" => pp.ret.tag = "Ok"

C6_Witness ==
    /\ pp.pc = "failed"
    /\ pp.ret.stage = "keygen"
    /\ pp.log = <<"witness", "build", "keygen">>

\* C7: a successful run returns a record with exactly the fields
\* state_proof, evm_proof and duration: empty bytes, the transcript's bytes
\* and the milliseconds since the run started.
C7_ProofsRecord ==
    pp.ret.tag = "Ok" =>
        /\ DOMAIN pp.ret.value = {"state_proof", "evm_proof", "duration"}
        /\ pp.ret.value.state_proof = <<>>
        /\ pp.ret.value.evm_proof = pp.transcript
        /\ pp.ret.value.duration = pp.now - pp.time_started

\* C8: the key given to create_proof was derived in the same run, from the
\* same params, for the shape of the circuit proved: the same k, 2^k rows,
\* bytecode_size = 2^k - 6, the same MAX_TXS and MAX_CALLDATA_TX.
C8_KeyMatchesCircuit ==
    pp.used_pk # NoValue =>
        LET key == pp.used_pk.key
            c == pp.circuit
        IN  /\ pp.used_pk.run = pp.run
            /\ key.params_k = pp.params_k
            /\ key.shape = Shape(c)
            /\ key.shape.k = pp.params_k /\ c.k = pp.params_k
            /\ key.shape.num_rows = 2 ^ pp.params_k
            /\ key.shape.bytecode_size = 2 ^ pp.params_k - 6
            /\ key.shape.MAX_TXS = c.MAX_TXS
            /\ key.shape.MAX_CALLDATA_TX = c.MAX_CALLDATA_TX

C8_Witness ==
    /\ pp.run = 2
    /\ pp.pc = "done"
    /\ pp.used_pk # NoValue
    /\ pp.params_k > MinK

\* C9: a and b are assigned the step's two popped values in the order the
\* declared pops require (SLT: first pop a, second pop b; SGT: first pop b,
\* second pop a), so both pop declarations hold on the assigned values, and
\* is_sgt is 1 iff the opcode is SGT.
C9_SwapConsistent ==
    phase = "assigned" =>
        LET pop1 == to_le_bytes(rws[step.rw_indices[0]])
            pop2 == to_le_bytes(rws[step.rw_indices[1]])
        IN  /\ step.opcode = "SLT" => cells.a = pop1 /\ cells.b = pop2
            /\ step.opcode = "SGT" => cells.b = pop1 /\ cells.a = pop2
            /\ ~cb.stack_ops[1].is_write /\ ~cb.stack_ops[2].is_write
            /\ Eval(cb.stack_ops[1].value, cells) = pop1
            /\ Eval(cb.stack_ops[2].value, cells) = pop2
            /\ cells.is_sgt = Bool01(step.opcode = "SGT")

C9_Witness ==
    /\ phase = "assigned"
    /\ step.opcode = "SGT"
    /\ rws[0] # rws[1]
    /\ cells.is_sgt = 1

\* C10: exactly one of a_neg_b_pos, b_neg_a_pos and 1 - a_neg_b_pos -
\* b_neg_a_pos is 1 and the others 0; the first is the case a negative, b
\* not (result 1), the second b negative, a not (result 0), the third the
\* same sign (result lt_hi or (eq_hi and lt_lo)); the result is 0 or 1.
C10_OneSelector ==
    phase = "assigned" =>
        LET s1 == a_neg_b_pos(cells)
            s2 == b_neg_a_pos(cells)
            s3 == 1 - s1 - s2
            r == result_expr(cells)
            a_neg == cells.a[31] >= 128
            b_neg == cells.b[31] >= 128
            lt_hi == cells.comparison_hi.lt = 1
            eq_hi == cells.comparison_hi.eq = 1
            lt_lo == cells.lt_lo = 1
        IN  /\ {s1, s2, s3} \subseteq {0, 1}
            /\ s1 + s2 + s3 = 1
            /\ s1 = Bool01(a_neg /\ ~b_neg)
            /\ s2 = Bool01(b_neg /\ ~a_neg)
            /\ s3 = Bool01(a_neg = b_neg)
            /\ s1 = 1 => r = 1
            /\ s2 = 1 => r = 0
            /\ s3 = 1 => r = Bool01(lt_hi \/ (eq_hi /\ lt_lo))
            /\ r \in {0, 1}

C10_Witness ==
    /\ phase = "assigned"
    /\ b_neg_a_pos(cells) = 1
    /\ a_lt_b_expr(cells) = 1
    /\ result_expr(cells) = 0

====
